---- MODULE Spec2Model ----
(***************************************************************************)
(* Model of the Zh Scopus dashboard: src/app.py (a Streamlit script that   *)
(* is re-executed top to bottom on every user interaction) and             *)
(* src/utils_pdf.py (the paginated PDF export).                            *)
(*                                                                         *)
(* Representation.                                                         *)
(*   text            a sequence of one-character strings                   *)
(*   nullable value  <<>> for a missing value (NaN / <NA>), <<v>> for v    *)
(*   number          an integer count of tenths (37 is 3.7), so that the   *)
(*                   float -> int truncation of astype(int) is modelled    *)
(*   DataFrame       a sequence of rows; a row carries its index label idx *)
(***************************************************************************)
EXTENDS Integers, Sequences, FiniteSets, TLC

VARIABLES
    sheet,         \* the rows of the spreadsheet file (never written)
    cache,         \* st.cache_data memo of load_data: <<>> or <<df>>
    parses,        \* how many times pd.read_excel has run
    df,            \* the base DataFrame bound by this script run
    w,             \* the widget values of the sidebar
    year_range,    \* the (lo, hi) pair computed from the preset
    mask,          \* the boolean mask of the filtering block
    filtered,      \* the filtered (then sorted) view
    top_authors,   \* the by-author aggregation shown in the last tab
    env,           \* what fails in this run: the set of failing export steps
    offered,       \* download buttons rendered by this run
    warnings,      \* st.warning messages rendered by this run
    pdf,           \* the state of dataframe_to_pdf_bytes
    pc             \* position of the script run

vars == <<sheet, cache, parses, df, w, year_range, mask, filtered,
          top_authors, env, offered, warnings, pdf, pc>>

----------------------------------------------------------------------------
(* Bounds of the model *)

MaxLoadRows == 2

MaxRows == 2

MaxSortRows == 3

MaxWide == 22

MaxPdfRows == 71

MaxPick == 1

----------------------------------------------------------------------------
(* Generic helpers *)

NaN == <<>>

Some(v) == <<v>>

IsNa(o) == o = <<>>

Min(a, b) == IF a <= b THEN a ELSE b

Max(a, b) == IF a >= b THEN a ELSE b

Range(s) == {s[i] : i \in 1..Len(s)}

SeqsUpTo(S, n) == UNION {[1..k -> S] : k \in 0..n}

NonEmptySeqsUpTo(S, n) == UNION {[1..k -> S] : k \in 1..n}

\* the sequences of 1..n distinct elements of S
DistinctSeqsUpTo(S, n) ==
    {s \in NonEmptySeqsUpTo(S, n) : \A i, j \in 1..Len(s) : s[i] = s[j] => i = j}

RECURSIVE SumSeq(_)
SumSeq(s) == IF s = <<>> THEN 0 ELSE Head(s) + SumSeq(Tail(s))

----------------------------------------------------------------------------
(* Text: str(), str.lower(), str.strip(), str.split(";"), substring search *)

T_nan == <<"n", "a", "n">>

\* astype(str) of an object cell: a missing value becomes the text "nan"
AsStr(o) == IF IsNa(o) THEN T_nan ELSE o[1]

LowerChar(c) ==
    CASE c = "A" -> "a"
      [] c = "B" -> "b"
      [] c = "L" -> "l"
      [] c = "N" -> "n"
      [] c = "S" -> "s"
      [] OTHER   -> c

StrLower(s) == [i \in 1..Len(s) |-> LowerChar(s[i])]

IsSpace(c) == c = " "

RECURSIVE LStrip(_)
LStrip(s) == IF s # <<>> /\ IsSpace(Head(s)) THEN LStrip(Tail(s)) ELSE s

RECURSIVE RStrip(_)
RStrip(s) ==
    IF s # <<>> /\ IsSpace(s[Len(s)]) THEN RStrip(SubSeq(s, 1, Len(s) - 1)) ELSE s

Strip(s) == RStrip(LStrip(s))

\* s.split(sep): always at least one piece, empty pieces are kept
RECURSIVE SplitAcc(_, _, _)
SplitAcc(s, sep, cur) ==
    IF s = <<>> THEN <<cur>>
    ELSE IF Head(s) = sep THEN <<cur>> \o SplitAcc(Tail(s), sep, <<>>)
    ELSE SplitAcc(Tail(s), sep, Append(cur, Head(s)))

Split(s, sep) == SplitAcc(s, sep, <<>>)

\* Python's `a in x` for two texts
Contains(x, a) ==
    \E i \in 0..(Len(x) - Len(a)) : SubSeq(x, i + 1, i + Len(a)) = a

----------------------------------------------------------------------------
(* The spreadsheet and load_data *)

\* A numeric cell of the sheet: blank, a number (in tenths) or a text
Blank == [t |-> "blank"]

Num(tenths) == [t |-> "num", v |-> tenths]

Txt(s) == [t |-> "text", s |-> s]

DigitOf(c) ==
    CASE c = "0" -> 0 [] c = "1" -> 1 [] c = "2" -> 2 [] c = "3" -> 3
      [] c = "4" -> 4 [] c = "5" -> 5 [] c = "6" -> 6 [] c = "7" -> 7
      [] c = "8" -> 8 [] c = "9" -> 9 [] OTHER -> -1

IsDigits(s) == s # <<>> /\ \A i \in 1..Len(s) : DigitOf(s[i]) >= 0

RECURSIVE DigitsVal(_)
DigitsVal(s) ==
    IF s = <<>> THEN 0
    ELSE DigitsVal(SubSeq(s, 1, Len(s) - 1)) * 10 + DigitOf(s[Len(s)])

\* pd.to_numeric(column, errors="coerce") on one cell: a float (in tenths) or NaN
ToNumeric(cell) ==
    CASE cell.t = "blank" -> NaN
      [] cell.t = "num"   -> Some(cell.v)
      [] cell.t = "text"  ->
            IF IsDigits(cell.s) THEN Some(10 * DigitsVal(cell.s))
            ELSE IF cell.s # <<>> /\ Head(cell.s) = "-" /\ IsDigits(Tail(cell.s))
                 THEN Some(-(10 * DigitsVal(Tail(cell.s))))
            ELSE NaN

\* float -> int of astype(int): truncation toward zero
AsInt(tenths) == IF tenths >= 0 THEN tenths \div 10 ELSE -((-tenths) \div 10)

FillNa(o, v) == IF IsNa(o) THEN v ELSE o[1]

\* df["cited_by"] = pd.to_numeric(...).fillna(0).astype(int)
CitedByFillMinusOne(cell) == AsInt(FillNa(ToNumeric(cell), -10))

CitedBy(cell) == AsInt(FillNa(ToNumeric(cell), 0))

\* df["year"] = pd.to_numeric(...).astype("Int64") (whole numbers or <NA>)
YearOf(cell) ==
    LET n == ToNumeric(cell) IN IF IsNa(n) THEN NaN ELSE Some(AsInt(n[1]))

\* One row of the DataFrame load_data returns, with its index label
LoadRow(raw, i) ==
    [ idx             |-> i,
      authors_raw     |-> raw.authors_raw,
      authors_full    |-> raw.authors_full,
      title           |-> raw.title,
      year            |-> YearOf(raw.year),
      source          |-> raw.source,
      cited_by        |-> CitedBy(raw.cited_by),
      quartile        |-> raw.quartile,
      percentile_2024 |-> ToNumeric(raw.percentile_2024),
      authors_full_lc |-> StrLower(AsStr(raw.authors_full)),
      title_lc        |-> StrLower(AsStr(raw.title)),
      source_lc       |-> StrLower(AsStr(raw.source)) ]

\* pd.read_excel followed by the renames, coercions and helper columns
ReadExcel(rows) == [i \in 1..Len(rows) |-> LoadRow(rows[i], i)]

----------------------------------------------------------------------------
(* The sidebar: widget values and the options the data offers *)

Q1 == <<"Q", "1">>

Q2 == <<"Q", "2">>

Q3 == <<"Q", "3">>

Q4 == <<"Q", "4">>

\* quartiles_all = ["Q1", "Q2", "Q3", "Q4"]
quartiles_all == {Q1, Q2, Q3, Q4}

PercentileMin == 0

PercentileMax == 100

SortOptions ==
    { "year_desc", "year_asc", "cited_desc", "cited_asc",
      "author_asc", "author_desc", "source_asc", "source_desc" }

\* The widget values of a fresh session (the defaults of each widget)
WidgetDefaults ==
    [ preset   |-> "all",
      slider   |-> NaN,
      sources  |-> {},
      authors  |-> {},
      quartiles |-> quartiles_all,
      pct      |-> <<PercentileMin, PercentileMax>>,
      search   |-> <<>>,
      sort     |-> "year_desc" ]

\* years = df["year"].dropna().unique()
Years(d) == {d[i].year[1] : i \in {j \in 1..Len(d) : ~IsNa(d[j].year)}}

SetMin(S) == CHOOSE x \in S : \A y \in S : x <= y

SetMax(S) == CHOOSE x \in S : \A y \in S : x >= y

\* The preset radio and the year slider
YearRange(d, wv) ==
    LET min_year == SetMin(Years(d))
        max_year == SetMax(Years(d))
    IN  CASE wv.preset = "all" ->
                IF IsNa(wv.slider) THEN <<min_year, max_year>> ELSE wv.slider[1]
          [] wv.preset = "last5"  -> <<Max(max_year - 4, min_year), max_year>>
          [] wv.preset = "last10" -> <<Max(max_year - 9, min_year), max_year>>

\* source_counts.index: the distinct sources (value_counts drops NaN)
SourceOptions(d) ==
    {d[i].source[1] : i \in {j \in 1..Len(d) : ~IsNa(d[j].source)}}

\* .astype(str).str.split(";") followed by .str.strip() on every piece
AuthorPieces(o) ==
    LET parts == Split(AsStr(o), ";") IN [k \in 1..Len(parts) |-> Strip(parts[k])]

\* author_counts.index: every distinct stripped piece, "" and "nan" included
AuthorOptions(d) == UNION {Range(AuthorPieces(d[i].authors_full)) : i \in 1..Len(d)}

\* st.text_input(...).strip().lower()
SearchQuery(input) == StrLower(Strip(input))

----------------------------------------------------------------------------
(* The filtering block *)

\* Series.between(lo, hi) on a nullable column, a missing value selects nothing
Between(o, lo, hi) == ~IsNa(o) /\ lo <= o[1] /\ o[1] <= hi

\* Series.str.contains(pat, na=False): pat is searched as a regular
\* expression; of the metacharacters the model has "." (any character)
StrContains(text, pat) ==
    \E i \in 0..(Len(text) - Len(pat)) :
        \A k \in 1..Len(pat) : pat[k] = "." \/ text[i + k] = pat[k]

MaskOr(m, n) == [i \in DOMAIN m |-> m[i] \/ n[i]]

MaskAndAsOr(m, n) == [i \in DOMAIN m |-> m[i] \/ n[i]]

\* mask &= ...
MaskAnd(m, n) == [i \in DOMAIN m |-> m[i] /\ n[i]]

\* mask = df["year"].between(year_range[0], year_range[1])
YearMask(d, yr) == [i \in 1..Len(d) |-> Between(d[i].year, yr[1], yr[2])]

\* df["source"].isin(selected_sources)
SourceMask(d, sel) ==
    [i \in 1..Len(d) |-> ~IsNa(d[i].source) /\ d[i].source[1] \in sel]

\* df["authors_full"].astype(str).apply(lambda x: any(a in x for a in selected_authors))
AuthorMask(d, sel) ==
    [i \in 1..Len(d) |-> \E a \in sel : Contains(AsStr(d[i].authors_full), a)]

\* df["quartile"].astype(str).isin(selected_quartiles)
QuartileMask(d, sel) == [i \in 1..Len(d) |-> AsStr(d[i].quartile) \in sel]

PercentileMaskFillZero(d, pr) ==
    [i \in 1..Len(d) |->
        LET p == FillNa(d[i].percentile_2024, 0)
        IN  10 * pr[1] <= p /\ p <= 10 * pr[2]]

\* df["percentile_2024"].fillna(-1).between(lo, hi); numbers are in tenths
PercentileMask(d, pr) ==
    [i \in 1..Len(d) |->
        LET p == FillNa(d[i].percentile_2024, -10)
        IN  10 * pr[1] <= p /\ p <= 10 * pr[2]]

SearchMaskNoTitle(d, q) ==
    MaskOr([i \in 1..Len(d) |-> StrContains(d[i].authors_full_lc, q)],
           [i \in 1..Len(d) |-> StrContains(d[i].source_lc, q)])

\* the three str.contains masks joined by |
SearchMask(d, q) ==
    MaskOr(MaskOr([i \in 1..Len(d) |-> StrContains(d[i].authors_full_lc, q)],
                  [i \in 1..Len(d) |-> StrContains(d[i].title_lc, q)]),
           [i \in 1..Len(d) |-> StrContains(d[i].source_lc, q)])

\* the mask after every `mask &= ...` of the block
FilterMask(d, wv, yr) ==
    LET m0 == YearMask(d, yr)
        m1 == IF wv.sources # {} THEN MaskAnd(m0, SourceMask(d, wv.sources)) ELSE m0
        m2 == IF wv.authors # {} THEN MaskAnd(m1, AuthorMask(d, wv.authors)) ELSE m1
        m3 == MaskAnd(m2, QuartileMask(d, wv.quartiles))
        m4 == MaskAnd(m3, PercentileMask(d, wv.pct))
        q  == SearchQuery(wv.search)
    IN  IF q # <<>> THEN MaskAnd(m4, SearchMask(d, q)) ELSE m4

\* df[mask].copy(): the rows whose mask entry is True, in the order of df
RECURSIVE BoolIndex(_, _)
BoolIndex(d, m) ==
    IF d = <<>> THEN <<>>
    ELSE IF Head(m) THEN <<Head(d)>> \o BoolIndex(Tail(d), Tail(m))
    ELSE BoolIndex(Tail(d), Tail(m))

----------------------------------------------------------------------------
(* The script run, step by step *)

CacheHitNever(c) == FALSE

\* st.cache_data: the memo is hit when it holds a value for these arguments
CacheHit(c) == c # <<>>

\* line 5: from utils_pdf import dataframe_to_pdf_bytes
Import ==
    /\ pc = "start"
    /\ pc' = IF "import" \in env THEN "crashed" ELSE "load"
    /\ UNCHANGED <<sheet, cache, parses, df, w, year_range, mask, filtered,
                   top_authors, env, offered, warnings, pdf>>

\* df = load_data("data/zhubanov_scopus_issn.xlsx")
LoadData ==
    /\ pc = "load"
    /\ IF CacheHit(cache)
         THEN /\ df' = cache[1]
              /\ UNCHANGED <<cache, parses>>
         ELSE /\ df' = ReadExcel(sheet)
              /\ cache' = Some(ReadExcel(sheet))
              /\ parses' = parses + 1
    /\ pc' = "sidebar"
    /\ UNCHANGED <<sheet, w, year_range, mask, filtered, top_authors, env,
                   offered, warnings, pdf>>

\* lines 70-128: int(years.min()) raises when no row has a year
Sidebar ==
    /\ pc = "sidebar"
    /\ IF Years(df) = {}
         THEN pc' = "crashed" /\ UNCHANGED year_range
         ELSE pc' = "filter" /\ year_range' = YearRange(df, w)
    /\ UNCHANGED <<sheet, cache, parses, df, w, mask, filtered, top_authors,
                   env, offered, warnings, pdf>>

\* lines 131-151
Filtering ==
    /\ pc = "filter"
    /\ mask' = FilterMask(df, w, year_range)
    /\ filtered' = BoolIndex(df, FilterMask(df, w, year_range))
    /\ pc' = "sort"
    /\ UNCHANGED <<sheet, cache, parses, df, w, year_range, top_authors, env,
                   offered, warnings, pdf>>

----------------------------------------------------------------------------
(* Sorting: DataFrame.sort_values(column, ascending=...) *)

\* code points of the characters the model's texts use
CharCode(c) ==
    CASE c = " " -> 32 [] c = "-" -> 45 [] c = "." -> 46 [] c = ";" -> 59
      [] c = "A" -> 65 [] c = "B" -> 66 [] c = "L" -> 76 [] c = "N" -> 78
      [] c = "Q" -> 81 [] c = "S" -> 83 [] c = "a" -> 97 [] c = "b" -> 98
      [] c = "l" -> 108 [] c = "n" -> 110 [] c = "s" -> 115 [] c = "x" -> 120
      [] OTHER -> 48 + DigitOf(c)

\* Python's < on two texts
RECURSIVE StrLess(_, _)
StrLess(a, b) ==
    IF b = <<>> THEN FALSE
    ELSE IF a = <<>> THEN TRUE
    ELSE IF Head(a) = Head(b) THEN StrLess(Tail(a), Tail(b))
    ELSE CharCode(Head(a)) < CharCode(Head(b))

SortColumn(option) ==
    CASE option \in {"year_desc", "year_asc"}     -> "year"
      [] option \in {"cited_desc", "cited_asc"}   -> "cited_by"
      [] option \in {"author_asc", "author_desc"} -> "authors_full"
      [] option \in {"source_asc", "source_desc"} -> "source"

Ascending(option) == option \in {"year_asc", "cited_asc", "author_asc", "source_asc"}

\* the sort key of a row as a nullable value
SortKey(r, col) ==
    CASE col = "year"         -> r.year
      [] col = "cited_by"     -> Some(r.cited_by)
      [] col = "authors_full" -> r.authors_full
      [] col = "source"       -> r.source

KeyLess(x, y, col) ==
    IF col \in {"year", "cited_by"} THEN x[1] < y[1] ELSE StrLess(x[1], y[1])

\* every order of the elements of a finite set
RECURSIVE Perms(_)
Perms(S) ==
    IF S = {} THEN {<<>>}
    ELSE UNION {{<<x>> \o p : p \in Perms(S \ {x})} : x \in S}

\* the orders argsort(kind="quicksort") may give the rows with a key: the key
\* runs in the direction asked, rows with equal keys come in any order
RECURSIVE KeyOrders(_, _, _)
KeyOrders(rows, col, asc) ==
    IF rows = {} THEN {<<>>}
    ELSE LET first == {r \in rows : \A o \in rows :
                          IF asc THEN ~KeyLess(SortKey(o, col), SortKey(r, col), col)
                                 ELSE ~KeyLess(SortKey(r, col), SortKey(o, col), col)}
         IN  {p \o q : p \in Perms(first), q \in KeyOrders(rows \ first, col, asc)}

\* the outcomes of view.sort_values(col, ascending=asc): the default kind is
\* "quicksort", na_position is "last" and rows without a key keep their order
SortValues(view, col, asc) ==
    LET keyed   == {view[k] : k \in {j \in 1..Len(view) : ~IsNa(SortKey(view[j], col))}}
        unkeyed == SelectSeq(view, LAMBDA r : IsNa(SortKey(r, col)))
    IN  {p \o unkeyed : p \in KeyOrders(keyed, col, asc)}

\* lines 153-169
Sorting ==
    /\ pc = "sort"
    /\ filtered' \in SortValues(filtered, SortColumn(w.sort), Ascending(w.sort))
    /\ pc' = "csv"
    /\ UNCHANGED <<sheet, cache, parses, df, w, year_range, mask, top_authors,
                   env, offered, warnings, pdf>>

----------------------------------------------------------------------------
(* The export block of the table tab: lines 218-236 *)

ExportFormats == {"csv", "excel", "pdf"}

\* csv_bytes = ...to_csv(index=False).encode("utf-8-sig"); st.download_button
ExportCsv ==
    /\ pc = "csv"
    /\ IF "csv" \in env
         THEN pc' = "failed" /\ UNCHANGED offered
         ELSE pc' = "excel" /\ offered' = offered \cup {"csv"}
    /\ UNCHANGED <<sheet, cache, parses, df, w, year_range, mask, filtered,
                   top_authors, env, warnings, pdf>>

\* with pd.ExcelWriter(...) as writer: ...to_excel(...); st.download_button
ExportExcel ==
    /\ pc = "excel"
    /\ IF "excel" \in env
         THEN pc' = "failed" /\ UNCHANGED offered
         ELSE pc' = "pdf" /\ offered' = offered \cup {"excel"}
    /\ UNCHANGED <<sheet, cache, parses, df, w, year_range, mask, filtered,
                   top_authors, env, warnings, pdf>>

\* try: dataframe_to_pdf_bytes(...); st.download_button / except: st.warning
ExportPdf ==
    /\ pc = "pdf"
    /\ IF "pdf" \in env
         THEN warnings' = warnings \cup {"pdf"} /\ UNCHANGED offered
         ELSE offered' = offered \cup {"pdf"} /\ UNCHANGED warnings
    /\ pc' = "authors"
    /\ UNCHANGED <<sheet, cache, parses, df, w, year_range, mask, filtered,
                   top_authors, env, pdf>>

----------------------------------------------------------------------------
(* The by-author aggregation of the last tab: lines 279-287 *)

TopN == 20

\* filtered.assign(_authors=filtered["authors_full"].astype(str).str.split(";"))
AssignAuthors(r) == Split(AsStr(r.authors_full), ";")

\* .explode("_authors") and the strip: one row per piece, the other columns repeated
RECURSIVE Explode(_)
Explode(view) ==
    IF view = <<>> THEN <<>>
    ELSE LET r     == Head(view)
             parts == AssignAuthors(r)
         IN  [k \in 1..Len(parts) |->
                 [author |-> Strip(parts[k]), title |-> r.title,
                  cited_by |-> r.cited_by]]
             \o Explode(Tail(view))

\* agg(pub_count=("title", "count")): the rows of the group whose title is present
RECURSIVE CountTitles(_, _)
CountTitles(rows, a) ==
    IF rows = <<>> THEN 0
    ELSE (IF Head(rows).author = a /\ ~IsNa(Head(rows).title) THEN 1 ELSE 0)
         + CountTitles(Tail(rows), a)

\* agg(cites=("cited_by", "sum"))
RECURSIVE SumCited(_, _)
SumCited(rows, a) ==
    IF rows = <<>> THEN 0
    ELSE (IF Head(rows).author = a THEN Head(rows).cited_by ELSE 0)
         + SumCited(Tail(rows), a)

\* exploded[exploded["_authors"] != ""].groupby("_authors").agg(...)
GroupByAuthor(view) ==
    LET exploded == SelectSeq(Explode(view), LAMBDA x : x.author # <<>>)
    IN  { [author |-> a, pub_count |-> CountTitles(exploded, a),
           cites |-> SumCited(exploded, a)] :
            a \in {exploded[k].author : k \in 1..Len(exploded)} }

\* the subsets of S with k elements
RECURSIVE KSubsets(_, _)
KSubsets(S, k) ==
    IF k = 0 THEN {{}}
    ELSE UNION {{T \cup {x} : T \in KSubsets(S \ {x}, k - 1)} : x \in S}

\* .sort_values("pub_count", ascending=False).head(n): the rows of the table
\* that can come first; groups that tie at the cut are taken in any order
Head_n(groups, n) ==
    IF Cardinality(groups) <= n THEN {groups}
    ELSE LET cut   == CHOOSE c \in {g.pub_count : g \in groups} :
                          /\ Cardinality({g \in groups : g.pub_count > c}) < n
                          /\ Cardinality({g \in groups : g.pub_count >= c}) >= n
             above == {g \in groups : g.pub_count > cut}
             ties  == {g \in groups : g.pub_count = cut}
             room  == n - Cardinality(above)
             out   == Cardinality(ties) - room
         IN  IF out <= room
               THEN {above \cup (ties \ X) : X \in KSubsets(ties, out)}
               ELSE {above \cup X : X \in KSubsets(ties, room)}

TabAuthors ==
    /\ pc = "authors"
    /\ \E top \in Head_n(GroupByAuthor(filtered), TopN) :
          top_authors' = [agg |-> GroupByAuthor(filtered), head |-> top]
    /\ pc' = "done"
    /\ UNCHANGED <<sheet, cache, parses, df, w, year_range, mask, filtered,
                   env, offered, warnings, pdf>>

----------------------------------------------------------------------------
(* User interactions: a changed widget value re-runs the script from the top *)

Rendered == pc \in {"sort", "csv", "excel", "pdf", "authors", "done", "failed"}

Rerun(wv) ==
    /\ Rendered
    /\ wv # w
    /\ w' = wv
    /\ pc' = "start"
    /\ df' = <<>>
    /\ year_range' = <<>>
    /\ mask' = <<>>
    /\ filtered' = <<>>
    /\ top_authors' = <<>>
    /\ offered' = {}
    /\ warnings' = {}
    /\ UNCHANGED <<sheet, cache, parses, env, pdf>>

\* The preset radio; the slider exists (and keeps a value) only under "all"
ChangePreset ==
    \E p \in {"all", "last5", "last10"} :
        Rerun([w EXCEPT !.preset = p, !.slider = NaN])

ChangeYearSlider ==
    /\ w.preset = "all"
    /\ \E lo \in Years(df), hi \in Years(df) :
          lo <= hi /\ Rerun([w EXCEPT !.slider = Some(<<lo, hi>>)])

ChangeSources(n) ==
    \E S \in SUBSET SourceOptions(df) :
        Cardinality(S) <= n /\ Rerun([w EXCEPT !.sources = S])

ChangeAuthors(n) ==
    \E S \in SUBSET AuthorOptions(df) :
        Cardinality(S) <= n /\ Rerun([w EXCEPT !.authors = S])

ChangeQuartiles(pool) ==
    \E S \in pool : Rerun([w EXCEPT !.quartiles = S])

ChangePercentile(stops) ==
    \E lo \in stops, hi \in stops :
        lo <= hi /\ Rerun([w EXCEPT !.pct = <<lo, hi>>])

ChangeSearch(pool) ==
    \E s \in pool : Rerun([w EXCEPT !.search = s])

ChangeSort(options) ==
    \E o \in options : Rerun([w EXCEPT !.sort = o])

----------------------------------------------------------------------------
(* Sessions: the file content, and what the environment makes fail *)

RawRow(ar, af, ti, y, so, cb, q, p) ==
    [ authors_raw |-> ar, authors_full |-> af, title |-> ti, year |-> y,
      source |-> so, cited_by |-> cb, quartile |-> q, percentile_2024 |-> p ]

InitWith(sheets, envs) ==
    /\ sheet \in sheets
    /\ env \in envs
    /\ cache = <<>>
    /\ parses = 0
    /\ df = <<>>
    /\ w = WidgetDefaults
    /\ year_range = <<>>
    /\ mask = <<>>
    /\ filtered = <<>>
    /\ top_authors = <<>>
    /\ offered = {}
    /\ warnings = {}
    /\ pdf = <<>>
    /\ pc = "start"

----------------------------------------------------------------------------
(* SpecFilter: sessions that change the filter widgets *)

FilterRows ==
    { RawRow(Some(<<"L">>), Some(<<"L", ";", " ", "S">>), Some(<<"A", "b">>),
             Num(20230), Some(<<"B">>), Num(50), Some(Q1), Num(1000)),
      RawRow(Some(<<"S">>), Some(<<"S", "l">>), Some(<<"b">>),
             Num(20150), Some(<<"a">>), Num(0), Some(Q3), Num(505)),
      RawRow(NaN, NaN, Some(<<"n">>),
             Num(20200), NaN, Blank, Some(Q1), Num(0)),
      RawRow(Some(<<"b">>), Some(<<"b">>), NaN,
             Blank, Some(<<"a">>), Num(10), NaN, Blank) }

FilterSheets == DistinctSeqsUpTo(FilterRows, MaxRows)

InitFilter == InitWith(FilterSheets, {{}})

NextFilter ==
    \/ Import
    \/ LoadData
    \/ Sidebar
    \/ Filtering
    \/ ChangePreset
    \/ ChangeYearSlider
    \/ ChangeSources(MaxPick)
    \/ ChangeAuthors(MaxPick)
    \/ ChangeQuartiles({quartiles_all, {Q1}, {}})
    \/ ChangePercentile({PercentileMin, PercentileMax})
    \/ ChangeSearch({<<>>, <<" ", "B">>})

SpecFilter == InitFilter /\ [][NextFilter]_vars

\* The predicates of the filter specification, one Record at a time
YearOk(r, yr) == ~IsNa(r.year) /\ yr[1] <= r.year[1] /\ r.year[1] <= yr[2]

SourceOk(r, sel) == sel = {} \/ (~IsNa(r.source) /\ r.source[1] \in sel)

AuthorOk(r, sel) == sel = {} \/ \E a \in sel : Contains(AsStr(r.authors_full), a)

QuartileOk(r, sel) == AsStr(r.quartile) \in sel

PercentileOk(r, pr) ==
    /\ ~IsNa(r.percentile_2024)
    /\ 10 * pr[1] <= r.percentile_2024[1]
    /\ r.percentile_2024[1] <= 10 * pr[2]

SearchedFields(r) ==
    { StrLower(AsStr(r.authors_full)), StrLower(AsStr(r.title)),
      StrLower(AsStr(r.source)) }

SearchOk(r, q) == q = <<>> \/ \E f \in SearchedFields(r) : StrContains(f, q)

RowPasses(r) ==
    /\ YearOk(r, year_range)
    /\ SourceOk(r, w.sources)
    /\ AuthorOk(r, w.authors)
    /\ QuartileOk(r, w.quartiles)
    /\ PercentileOk(r, w.pct)
    /\ SearchOk(r, SearchQuery(w.search))

InView(i) == \E k \in 1..Len(filtered) : filtered[k].idx = i

----------------------------------------------------------------------------
(* SpecLoad: what load_data makes of the cells of the citation column *)

CitedCells ==
    { Blank, Num(0), Num(50), Num(37), Num(-20), Num(-5),
      Txt(<<"1", "2">>), Txt(<<"-", "3">>), Txt(<<"x">>), Txt(<<>>) }

LoadRows ==
    { RawRow(Some(<<"L">>), Some(<<"L">>), Some(<<"A">>), Num(20230),
             Some(<<"B">>), c, Some(Q1), Num(500)) : c \in CitedCells }

LoadSheets == NonEmptySeqsUpTo(LoadRows, MaxLoadRows)

InitLoad == InitWith(LoadSheets, {{}})

NextLoad ==
    \/ Import
    \/ LoadData
    \/ Sidebar

SpecLoad == InitLoad /\ [][NextLoad]_vars

Loaded == pc \notin {"start", "load"}

----------------------------------------------------------------------------
(* SpecSearch: sessions that type into the search box *)

SearchRows ==
    { RawRow(Some(<<"L">>), Some(<<"S">>), Some(<<"A", "b">>),
             Num(20230), Some(<<"B">>), Num(10), Some(Q1), Num(500)),
      RawRow(NaN, NaN, Some(<<"N", "b">>),
             Num(20230), Some(<<"a">>), Num(0), Some(Q2), Num(500)),
      RawRow(Some(<<"b">>), Some(<<"L", ";", " ", "S">>), NaN,
             Num(20230), NaN, Num(0), Some(Q1), Num(500)) }

SearchSheets == DistinctSeqsUpTo(SearchRows, MaxRows)

SearchInputs ==
    { <<>>, <<" ">>, <<"L">>, <<"b">>, <<" ", "B", " ">>, <<"n", "a", "n">>,
      <<"a", ".">>, <<";", " ">>, <<"x">> }

InitSearch == InitWith(SearchSheets, {{}})

NextSearch ==
    \/ Import
    \/ LoadData
    \/ Sidebar
    \/ Filtering
    \/ ChangeQuartiles({quartiles_all, {Q1}})
    \/ ChangeSearch(SearchInputs)

SpecSearch == InitSearch /\ [][NextSearch]_vars

\* every predicate of the filter specification but the search
PassesButSearch(r) ==
    /\ YearOk(r, year_range)
    /\ SourceOk(r, w.sources)
    /\ AuthorOk(r, w.authors)
    /\ QuartileOk(r, w.quartiles)
    /\ PercentileOk(r, w.pct)

FourFields(r) ==
    { StrLower(AsStr(r.authors_raw)), StrLower(AsStr(r.authors_full)),
      StrLower(AsStr(r.title)), StrLower(AsStr(r.source)) }

\* C2 as stated: with a non-blank query q a Record passes the search exactly
\* when the lowercase form of one of authors_raw, authors_full, title, source
\* contains q as a substring; a blank query restricts nothing.
C2_SearchFourFieldsSubstring ==
    pc = "sort" =>
        LET q == SearchQuery(w.search)
        IN  \A i \in 1..Len(df) :
                InView(i) <=>
                    /\ PassesButSearch(df[i])
                    /\ q = <<>> \/ \E f \in FourFields(df[i]) : Contains(f, q)

\* C2 as amended: with a non-blank query q a Record passes the search exactly
\* when the lowercase text of one of authors_full, title, source (an absent
\* field reads "nan") matches q read as a regular expression; authors_raw is
\* not searched; a blank query restricts nothing.
C2_SearchThreeFieldsRegex ==
    pc = "sort" =>
        LET q == SearchQuery(w.search)
        IN  \A i \in 1..Len(df) :
                InView(i) <=>
                    /\ PassesButSearch(df[i])
                    /\ \/ q = <<>>
                       \/ StrContains(StrLower(AsStr(df[i].authors_full)), q)
                       \/ StrContains(StrLower(AsStr(df[i].title)), q)
                       \/ StrContains(StrLower(AsStr(df[i].source)), q)

\* a Record matching only in authors_raw is dropped while another is kept
C2_Witness ==
    /\ pc = "sort"
    /\ SearchQuery(w.search) # <<>>
    /\ \E i \in 1..Len(df) :
          /\ ~InView(i)
          /\ PassesButSearch(df[i])
          /\ Contains(StrLower(AsStr(df[i].authors_raw)), SearchQuery(w.search))
    /\ \E j \in 1..Len(df) : InView(j)

----------------------------------------------------------------------------
(* SpecPercentile: sessions that move the percentile slider *)

PercentileCells == {Blank, Num(0), Num(505), Num(1000), Txt(<<"x">>)}

PercentileRows ==
    { RawRow(Some(<<"L">>), Some(<<"L">>), Some(<<"A">>), Num(20230),
             Some(<<"B">>), Num(10), Some(IF c = Num(505) THEN Q2 ELSE Q1), c) :
        c \in PercentileCells }

PercentileSheets == DistinctSeqsUpTo(PercentileRows, MaxRows)

PercentileStops == {PercentileMin, 50, 51, PercentileMax}

InitPercentile == InitWith(PercentileSheets, {{}})

NextPercentile ==
    \/ Import
    \/ LoadData
    \/ Sidebar
    \/ Filtering
    \/ ChangeQuartiles({quartiles_all, {Q1}})
    \/ ChangePercentile(PercentileStops)

SpecPercentile == InitPercentile /\ [][NextPercentile]_vars

\* every predicate of the filter specification but the percentile range
PassesButPercentile(r) ==
    /\ YearOk(r, year_range)
    /\ SourceOk(r, w.sources)
    /\ AuthorOk(r, w.authors)
    /\ QuartileOk(r, w.quartiles)
    /\ SearchOk(r, SearchQuery(w.search))

\* C7: for every selectable range 0 <= lo <= hi <= 100, the full range
\* included, a Record with an absent percentile is never in the filtered
\* view, and a Record with a present percentile p passes this predicate
\* exactly when lo <= p <= hi.
C7_AbsentPercentileExcluded ==
    pc = "sort" =>
        LET lo == w.pct[1]
            hi == w.pct[2]
        IN  /\ PercentileMin <= lo /\ lo <= hi /\ hi <= PercentileMax
            /\ \A i \in 1..Len(df) :
                  LET p == df[i].percentile_2024
                  IN  /\ IsNa(p) => ~InView(i)
                      /\ ~IsNa(p) =>
                            (InView(i) <=>
                                /\ PassesButPercentile(df[i])
                                /\ 10 * lo <= p[1]
                                /\ p[1] <= 10 * hi)

\* the full range is selected, an absent percentile is dropped, a present one kept
C7_Witness ==
    /\ pc = "sort"
    /\ w.pct = <<PercentileMin, PercentileMax>>
    /\ \E i \in 1..Len(df) : IsNa(df[i].percentile_2024) /\ ~InView(i)
    /\ \E j \in 1..Len(df) : InView(j)

----------------------------------------------------------------------------
(* SpecSort: sessions that change the sort option *)

SortRows ==
    { RawRow(Some(<<"L">>), Some(<<"L">>), Some(<<"A">>), Num(20230),
             Some(<<"a">>), Num(50), Some(Q1), Num(500)),
      RawRow(Some(<<"L">>), Some(<<"L">>), Some(<<"b">>), Num(20230),
             Some(<<"B">>), Num(50), Some(Q1), Num(500)),
      RawRow(NaN, NaN, Some(<<"n">>), Num(20150),
             NaN, Num(0), Some(Q1), Num(500)),
      RawRow(Some(<<"S">>), Some(<<"S">>), Some(<<"s">>), Num(20150),
             Some(<<"a">>), Num(50), Some(Q1), Num(500)) }

SortSheets == DistinctSeqsUpTo(SortRows, MaxSortRows)

InitSort == InitWith(SortSheets, {{}})

NextSort ==
    \/ Import
    \/ LoadData
    \/ Sidebar
    \/ Filtering
    \/ Sorting
    \/ ChangeSort(SortOptions)

SpecSort == InitSort /\ [][NextSort]_vars

\* the filtered view as the sort receives it
SortInput == BoolIndex(df, mask)

PositionIn(view, i) == CHOOSE k \in 1..Len(view) : view[k].idx = i

\* C3 as stated: for every sort option, two Records with equal sort keys
\* stand in the sorted view in the order they had in the filtered input.
C3_SortIsStable ==
    pc = "csv" =>
        \A k \in 1..Len(filtered), l \in 1..Len(filtered) :
            (/\ k < l
             /\ SortKey(filtered[k], SortColumn(w.sort))
                  = SortKey(filtered[l], SortColumn(w.sort)))
            => PositionIn(SortInput, filtered[k].idx)
                 < PositionIn(SortInput, filtered[l].idx)

----------------------------------------------------------------------------
(* SpecExport: runs in which export steps fail *)

FailurePoints == {"import", "csv", "excel", "pdf"}

InitExport == InitWith(FilterSheets, SUBSET FailurePoints)

NextExport ==
    \/ Import
    \/ LoadData
    \/ Sidebar
    \/ Filtering
    \/ Sorting
    \/ ExportCsv
    \/ ExportExcel
    \/ ExportPdf
    \/ TabAuthors

SpecExport == InitExport /\ [][NextExport]_vars

RunEnded == pc \in {"done", "failed", "crashed"}

\* C6 as stated: when exactly one of the three formats fails (the PDF backend
\* that cannot be imported included), the run does not abort, the other two
\* formats are offered and a warning names the failed format.
C6_ExportFailuresIsolated ==
    RunEnded =>
        /\ \A f \in ExportFormats :
              env = {f} =>
                  /\ pc = "done"
                  /\ ExportFormats \ {f} \subseteq offered
                  /\ f \in warnings
        /\ env = {"import"} =>
              /\ pc = "done"
              /\ {"csv", "excel"} \subseteq offered
              /\ "pdf" \in warnings

----------------------------------------------------------------------------
(* SpecAgg: the by-author aggregation *)

AggRows ==
    { RawRow(Some(<<"S">>), Some(<<"S", ";", " ", "L">>), Some(<<"A">>),
             Num(20230), Some(<<"a">>), Num(30), Some(Q1), Num(500)),
      RawRow(Some(<<"L">>), Some(<<"L">>), Some(<<"A">>),
             Num(20230), Some(<<"a">>), Num(30), Some(Q1), Num(500)),
      RawRow(Some(<<"L">>), Some(<<"L", ";", "L">>), Some(<<"b">>),
             Num(20230), Some(<<"a">>), Num(30), Some(Q1), Num(500)),
      RawRow(NaN, NaN, Some(<<"b">>),
             Num(20230), Some(<<"a">>), Num(10), Some(Q1), Num(500)),
      RawRow(Some(<<"S">>), Some(<<"S", " ", ";">>), NaN,
             Num(20230), Some(<<"a">>), Num(20), Some(Q1), Num(500)),
      RawRow(Some(<<"B">>), Some(<<";", " ", "B">>), Some(<<"b">>),
             Num(20230), Some(<<"a">>), Num(20), Some(Q1), Num(500)) }

\* the names of the authors of a sheet with many authors
Letter(i) ==
    <<"a", "b", "c", "d", "e", "f", "g", "h", "i", "j", "k", "l", "m", "n",
      "o", "p", "q", "r", "s", "t", "u", "v", "w", "x", "y", "z">>[i]

\* n Records, each by one author of its own, in n different years
WideSheet(n) ==
    [i \in 1..n |->
        RawRow(Some(<<Letter(i)>>), Some(<<Letter(i)>>), Some(<<"A">>),
               Num(10 * (2000 + i)), Some(<<"a">>), Num(10), Some(Q1), Num(500))]

AggSheets ==
    DistinctSeqsUpTo(AggRows, MaxRows) \cup {WideSheet(n) : n \in 1..MaxWide}

InitAgg == InitWith(AggSheets, {{}})

NextAgg ==
    \/ Import
    \/ LoadData
    \/ Sidebar
    \/ Filtering
    \/ Sorting
    \/ ExportCsv
    \/ ExportExcel
    \/ ExportPdf
    \/ TabAuthors

SpecAgg == InitAgg /\ [][NextAgg]_vars

\* the distinct non-empty trimmed authors a Record names (none when absent)
AuthorsOf(r) ==
    IF IsNa(r.authors_full) THEN {}
    ELSE LET parts == Split(r.authors_full[1], ";")
         IN  {Strip(parts[k]) : k \in 1..Len(parts)} \ {<<>>}

RECURSIVE SumCitedBy(_)
SumCitedBy(rows) ==
    IF rows = {} THEN 0
    ELSE LET r == CHOOSE x \in rows : TRUE
         IN  r.cited_by + SumCitedBy(rows \ {r})

\* the groups of the claim: one membership per Record and distinct author
MembershipGroups(view) ==
    { [author    |-> a,
       pub_count |-> Cardinality({k \in 1..Len(view) : a \in AuthorsOf(view[k])}),
       cites     |-> SumCitedBy({view[k] : k \in {j \in 1..Len(view) :
                                                     a \in AuthorsOf(view[j])}})] :
        a \in UNION {AuthorsOf(view[k]) : k \in 1..Len(view)} }

\* C4 as stated: every group counts each Record naming the author once
\* (pub_count) and sums cited_by over those Records (cites), whether or not a
\* Record repeats an author or lacks authors_full or a title.
C4_OneMembershipPerRecordAndAuthor ==
    (pc = "done" /\ Cardinality(top_authors.agg) <= TopN) =>
        top_authors.head = MembershipGroups(filtered)

RECURSIVE SumPubCount(_)
SumPubCount(groups) ==
    IF groups = {} THEN 0
    ELSE LET g == CHOOSE x \in groups : TRUE
         IN  g.pub_count + SumPubCount(groups \ {g})

RecordsWithAuthor(view) == {k \in 1..Len(view) : AuthorsOf(view[k]) # {}}

\* C5: the pub_count of the returned groups (the top 20) sum to at
\* least the number of filtered Records that have a non-empty author.
C5_ReturnedGroupsCoverRecords ==
    pc = "done" =>
        SumPubCount(top_authors.head) >= Cardinality(RecordsWithAuthor(filtered))

----------------------------------------------------------------------------
(* SpecSession: whole runs of the script under every kind of interaction *)

SessionRows ==
    { RawRow(Some(<<"L">>), Some(<<"L", ";", " ", "S">>), Some(<<"A", "b">>),
             Num(20230), Some(<<"B">>), Num(50), Some(Q1), Num(1000)),
      RawRow(Some(<<"S">>), Some(<<"S">>), Some(<<"b">>),
             Num(20150), Some(<<"a">>), Num(50), Some(Q3), Num(505)) }

SessionSheets == DistinctSeqsUpTo(SessionRows, MaxRows)

InitSession == InitWith(SessionSheets, {{}})

NextSession ==
    \/ Import
    \/ LoadData
    \/ Sidebar
    \/ Filtering
    \/ Sorting
    \/ ExportCsv
    \/ ExportExcel
    \/ ExportPdf
    \/ TabAuthors
    \/ ChangePreset
    \/ ChangeYearSlider
    \/ ChangeSources(MaxPick)
    \/ ChangeAuthors(MaxPick)
    \/ ChangeQuartiles({quartiles_all, {Q1}})
    \/ ChangePercentile({PercentileMin, PercentileMax})
    \/ ChangeSearch({<<>>, <<"b">>})
    \/ ChangeSort({"year_desc", "cited_asc", "author_desc", "source_asc"})

SpecSession == InitSession /\ [][NextSession]_vars

\* C10: whatever the user does, the file is parsed once, the memoised base
\* set never changes afterwards, every run works on that same base set, and
\* no step of a run (filter, sort, display, export, aggregation) changes it.
C10_BaseSetUnchanged ==
    [][ /\ sheet' = sheet
        /\ cache # <<>> => (cache' = cache /\ parses' = parses)
        /\ cache' # <<>> => (cache' = Some(ReadExcel(sheet)) /\ parses' = 1)
        /\ (df # <<>> /\ pc' # "start") => df' = df
        /\ df' # <<>> => df' = cache'[1] ]_vars

\* a later run, after interactions, that filtered, sorted, exported and aggregated
C10_Witness ==
    /\ pc = "done"
    /\ w.sort # "year_desc"
    /\ SearchQuery(w.search) # <<>>
    /\ Len(filtered) < Len(df)
    /\ offered = ExportFormats
    /\ top_authors # <<>>
    /\ parses = 1
    /\ df = cache[1]

----------------------------------------------------------------------------
(* src/utils_pdf.py: dataframe_to_pdf_bytes *)

max_cols == 8

max_lines == 35

MaxLineLen == 220

\* a cell of the table: None, NaN or a value given by its text
PyNone == [k |-> "none"]

PyNaN == [k |-> "nan"]

PyStr(s) == [k |-> "str", s |-> s]

\* str(v) if v is not None else ""
CellText(v) ==
    CASE v.k = "none" -> <<>>
      [] v.k = "nan"  -> T_nan
      [] v.k = "str"  -> v.s

\* sep.join(parts)
RECURSIVE Join(_, _)
Join(sep, parts) ==
    IF parts = <<>> THEN <<>>
    ELSE IF Len(parts) = 1 THEN parts[1]
    ELSE parts[1] \o sep \o Join(sep, Tail(parts))

Repeat(c, n) == [i \in 1..n |-> c]

\* display_df = df.iloc[:, :max_cols] when there are more columns
FirstColumns(cells) == IF Len(cells) > max_cols THEN SubSeq(cells, 1, max_cols) ELSE cells

\* row_str = " | ".join(...), cut to 217 characters and "..." when longer than 220
RowStr(cells) ==
    LET row_str == Join(<<" ", "|", " ">>,
                        [j \in 1..Len(cells) |-> CellText(cells[j])])
    IN  IF Len(row_str) > MaxLineLen
          THEN SubSeq(row_str, 1, MaxLineLen - 3) \o <<".", ".", ".">>
          ELSE row_str

PageFullLate(line_count) == line_count > max_lines

\* if line_count >= max_lines
PageFull(line_count) == line_count >= max_lines

TitleLine == <<"Z", "h">>

\* lines 12-34: the canvas, the title, the header line and the rule
PdfBegin ==
    /\ pc = "pdf_begin"
    /\ pdf' = [pdf EXCEPT
                 !.display    = [i \in 1..Len(pdf.rows) |-> FirstColumns(pdf.rows[i])],
                 !.page       = <<TitleLine>>,
                 !.textobject = << Join(<<",", " ">>, FirstColumns(pdf.columns)),
                                   Repeat("-", 120) >>,
                 !.line_count = 0,
                 !.i          = 1]
    /\ pc' = "pdf_rows"
    /\ UNCHANGED <<sheet, cache, parses, df, w, year_range, mask, filtered,
                   top_authors, env, offered, warnings>>

\* lines 35-46: one iteration of the loop over display_df.iterrows()
PdfRow ==
    /\ pc = "pdf_rows"
    /\ pdf.i <= Len(pdf.display)
    /\ LET text == Append(pdf.textobject, RowStr(pdf.display[pdf.i]))
       IN  IF PageFull(pdf.line_count + 1)
             THEN pdf' = [pdf EXCEPT !.pages = Append(@, pdf.page \o text),
                                     !.page = <<>>,
                                     !.textobject = <<>>,
                                     !.line_count = 0,
                                     !.i = @ + 1]
             ELSE pdf' = [pdf EXCEPT !.textobject = text,
                                     !.line_count = @ + 1,
                                     !.i = @ + 1]
    /\ UNCHANGED <<sheet, cache, parses, df, w, year_range, mask, filtered,
                   top_authors, env, offered, warnings, pc>>

\* lines 48-52: the last text object is drawn and the page is closed
PdfEnd ==
    /\ pc = "pdf_rows"
    /\ pdf.i > Len(pdf.display)
    /\ pdf' = [pdf EXCEPT !.pages = Append(@, pdf.page \o pdf.textobject),
                          !.page = <<>>,
                          !.textobject = <<>>]
    /\ pc' = "pdf_done"
    /\ UNCHANGED <<sheet, cache, parses, df, w, year_range, mask, filtered,
                   top_authors, env, offered, warnings>>

----------------------------------------------------------------------------
(* SpecPdf: dataframe_to_pdf_bytes on tables of 0..MaxPdfRows rows *)

\* the decimal text of a natural number
RECURSIVE StrOfNat(_)
StrOfNat(n) ==
    LET d == <<"0", "1", "2", "3", "4", "5", "6", "7", "8", "9">>[(n % 10) + 1]
    IN  IF n < 10 THEN <<d>> ELSE Append(StrOfNat(n \div 10), d)

\* row k of a table: its number, a text (of 230 characters in row `long`),
\* and, in a wide table, seven more cells of which the last is cut off
PdfRowCells(k, wide, long) ==
    << PyStr(StrOfNat(k)),
       PyStr(IF k = long THEN Repeat("x", MaxLineLen + 10) ELSE <<"a">>) >>
    \o (IF wide
          THEN <<PyNaN, PyNone, PyStr(<<"b">>), PyStr(<<>>), PyNaN, PyStr(<<"B">>),
                 PyStr(<<"s">>)>>
          ELSE <<>>)

PdfTable(n, wide, long) ==
    [ columns |-> [j \in 1..(IF wide THEN max_cols + 1 ELSE 2) |-> StrOfNat(j)],
      rows    |-> [k \in 1..n |-> PdfRowCells(k, wide, long)] ]

PdfTables ==
    { PdfTable(n, wide, long) :
        n \in 0..MaxPdfRows, wide \in BOOLEAN, long \in {0, 1, max_lines} }

InitPdf ==
    /\ \E t \in PdfTables :
          pdf = [ columns |-> t.columns, rows |-> t.rows, display |-> <<>>,
                  page |-> <<>>, textobject |-> <<>>, pages |-> <<>>,
                  line_count |-> 0, i |-> 0 ]
    /\ sheet = <<>>
    /\ env = {}
    /\ cache = <<>>
    /\ parses = 0
    /\ df = <<>>
    /\ w = WidgetDefaults
    /\ year_range = <<>>
    /\ mask = <<>>
    /\ filtered = <<>>
    /\ top_authors = <<>>
    /\ offered = {}
    /\ warnings = {}
    /\ pc = "pdf_begin"

NextPdf ==
    \/ PdfBegin
    \/ PdfRow
    \/ PdfEnd

SpecPdf == InitPdf /\ [][NextPdf]_vars

RECURSIVE Flatten(_)
Flatten(ps) == IF ps = <<>> THEN <<>> ELSE Head(ps) \o Flatten(Tail(ps))

\* the lines of the document after the title, the header line and the rule
DataLines == SubSeq(Flatten(pdf.pages), 4, Len(Flatten(pdf.pages)))

\* the text of row k: the first 8 cells joined by " | "
RowText(k) ==
    LET cells == pdf.rows[k]
        kept  == IF Len(cells) > max_cols THEN max_cols ELSE Len(cells)
    IN  Join(<<" ", "|", " ">>, [j \in 1..kept |-> CellText(cells[j])])

\* one line per row, in the order of the rows; a row of more than 220
\* characters is cut to 217 and "..."
RowsEmittedOnceInOrder ==
    /\ Len(DataLines) = Len(pdf.rows)
    /\ \A k \in 1..Len(pdf.rows) :
          /\ Len(DataLines[k]) <= MaxLineLen
          /\ IF Len(RowText(k)) <= MaxLineLen
               THEN DataLines[k] = RowText(k)
               ELSE /\ Len(DataLines[k]) = MaxLineLen
                    /\ SubSeq(DataLines[k], 1, MaxLineLen - 3)
                         = SubSeq(RowText(k), 1, MaxLineLen - 3)
                    /\ SubSeq(DataLines[k], MaxLineLen - 2, MaxLineLen)
                         = <<".", ".", ".">>

\* C8 as stated: n data lines, one per row and in order, none longer than 220
\* characters, and no page with more than 35 lines of text.
C8_NoPageOver35Lines ==
    pc = "pdf_done" =>
        /\ RowsEmittedOnceInOrder
        /\ \A p \in 1..Len(pdf.pages) : Len(pdf.pages[p]) <= max_lines

\* C8 as amended: n data lines, one per row and in order, none longer than 220
\* characters; a new page starts after every 35 data lines, so no page holds
\* more than 35 data lines; the first page holds the title, the header line
\* and the rule besides (up to 38 lines of text).
C8_NoPageOver35DataLines ==
    pc = "pdf_done" =>
        /\ RowsEmittedOnceInOrder
        /\ Len(pdf.pages) = (Len(pdf.rows) \div max_lines) + 1
        /\ \A p \in 1..Len(pdf.pages) :
              LET extra == IF p = 1 THEN 3 ELSE 0
              IN  IF p < Len(pdf.pages)
                    THEN Len(pdf.pages[p]) = max_lines + extra
                    ELSE Len(pdf.pages[p]) = (Len(pdf.rows) % max_lines) + extra

\* three pages, a wide table, and a row that was cut to 220 characters
C8_Witness ==
    /\ pc = "pdf_done"
    /\ Len(pdf.pages) >= 3
    /\ Len(pdf.columns) > max_cols
    /\ Len(pdf.pages[1]) > max_lines
    /\ \E k \in 1..Len(pdf.rows) :
          Len(RowText(k)) > MaxLineLen /\ Len(DataLines[k]) = MaxLineLen

====
